---- MODULE Spec2Model ----
(***************************************************************************)
(* The tool-calling conversation loop of src/src/agent.py                  *)
(* (ToolCallingAgent.call_and_run_tools and the operations it calls).      *)
(* One generator run is modelled: the message history, the events it has   *)
(* yielded, the position of the for-loop and how the run ended.            *)
(***************************************************************************)
EXTENDS Integers, Sequences, FiniteSets, TLC

\* ------------------------------------------------------------------ bounds

\* Largest value of the max_iter parameter that is explored (0..MaxIter).
MaxIter == 3

\* Largest number of tool calls one model turn may carry.
MaxCallsPerTurn == 2

VARIABLES
    messages,      \* the running message history (the `messages` list)
    events,        \* the ResponsesAgentStreamEvents yielded so far, in order
    iter,          \* iterations of `for _ in range(max_iter)` begun so far
    max_iter,      \* the max_iter argument of call_and_run_tools
    pc,            \* "loop" | "done" (return) | "budget" (notice yielded) | "raised"
    raised,        \* name of the exception that left the generator, or "none"
    next_call_id,  \* the next call id the endpoint hands out
    attempts,      \* chat.completions.create calls made for the latest model turn
    trace,         \* history: one record per model call, tool turn, notice, return
    tool_runs,     \* history: one record per handle_tool_call invocation
    messages0,     \* history: the conversation the run was started with
    agent,         \* the ToolCallingAgent object AGENT and the module's configuration
    runs           \* the invocations of predict / predict_stream in progress

vars == <<messages, events, iter, max_iter, pc, raised, next_call_id, attempts,
          trace, tool_runs, messages0, agent, runs>>

\* ------------------------------------------------------------ python values

None == "None"

\* A python value: None, an int or a str.
PyNone == [t |-> "none", i |-> 0, s |-> ""]
PyInt(n) == [t |-> "int", i |-> n, s |-> ""]
PyString(x) == [t |-> "str", i |-> 0, s |-> x]

\* str(): only the values the tools of this model produce are tabulated.
py_str(v) ==
    IF v.t = "none" THEN "None"
    ELSE IF v.t = "str" THEN v.s
    ELSE IF v.i = 12 THEN "12"
    ELSE "0"

\* ----------------------------------------------------------------- messages

NoArgs == <<>>

Msg(role, type, content, call_id, name, arguments, output) ==
    [role |-> role, type |-> type, content |-> content, call_id |-> call_id,
     name |-> name, arguments |-> arguments, output |-> output]

\* A chat turn as to_chat_completions_input leaves it: {role, content}.
ChatMsg(role, content) == Msg(role, None, content, 0, None, NoArgs, None)

create_text_output_item(text) ==
    Msg("assistant", "message", text, 0, None, NoArgs, None)

create_function_call_item(call_id, name, arguments) ==
    Msg(None, "function_call", None, call_id, name, arguments, None)

create_function_call_output_item(call_id, output) ==
    Msg(None, "function_call_output", None, call_id, None, NoArgs, output)

NoItem == Msg(None, None, None, 0, None, NoArgs, None)

ItemDone(item) == [type |-> "response.output_item.done", item |-> item, delta |-> ""]

TextDelta(text) == [type |-> "response.output_text.delta", item |-> NoItem, delta |-> text]

NoticeText == "Max iterations reached. Stopping."

NoticeEvent == ItemDone(create_text_output_item(NoticeText))

Last(s) == s[Len(s)]

\* ----------------------------------------------------------------- registry

\* UC_TOOL_NAMES, as the toolkit names them in a tool spec ("." becomes "__").
TOOL_INFOS == {"system__ai__python_exec"}

\* create_tool_info: udf_name = tool_name.replace("__", ".")
udf_name(tool_name) ==
    IF tool_name = "system__ai__python_exec" THEN "system.ai.python_exec" ELSE tool_name

\* self._tools_dict = {tool.name: tool for tool in tools}; the value kept here
\* is the function the tool's exec_fn executes.
tools_dict == [name \in TOOL_INFOS |-> udf_name(name)]

\* uc_toolkit.tools: the tool specs the catalog returns, read once when the
\* module is loaded.
uc_toolkit_tools ==
    <<[type |-> "function", name |-> "system__ai__python_exec", strict |-> "true"]>>

\* create_tool_info: pops "strict" from the spec and keeps name, spec, exec_fn.
create_tool_info(tool_spec) ==
    [name |-> tool_spec.name,
     spec |-> [tool_spec EXCEPT !.strict = None],
     udf_name |-> udf_name(tool_spec.name)]

\* AGENT = ToolCallingAgent(llm_endpoint, TOOL_INFOS): _tools_dict keeps the
\* tools in insertion order. SYSTEM_PROMPT is the module's configured prompt.
ToolCallingAgent(system_prompt) ==
    [tools_dict |-> [k \in DOMAIN uc_toolkit_tools |-> create_tool_info(uc_toolkit_tools[k])],
     SYSTEM_PROMPT |-> system_prompt]

\* get_tool_specs: [tool_info.spec for tool_info in self._tools_dict.values()]
get_tool_specs(self) == [k \in DOMAIN self.tools_dict |-> self.tools_dict[k].spec]

\* What uc_function_client.execute_function may answer: (value, error).
FunctionResults ==
    { [value |-> PyInt(12), error |-> PyNone],
      [value |-> PyNone, error |-> PyString("ZeroDivisionError: division by zero")] }

exec_fn_value_only(function_result) == function_result.value

\* exec_fn of create_tool_info: the error when there is one, else the value.
exec_fn(function_result) ==
    IF function_result.error # PyNone THEN function_result.error
    ELSE function_result.value

\* --------------------------------------------------------------- json.loads

\* The arguments of a tool call are a string; it is kept as its JSON tokens.
JsonStringTokens == {"\"code\"", "\"print(4*3)\""}
JsonScalarTokens == JsonStringTokens \cup {"12", "null"}

ValidArgs == <<"{", "\"code\"", ":", "\"print(4*3)\"", "}">>
TruncatedArgs == <<"{", "\"code\"", ":", "\"print(4*3)\"">>
ListArgs == <<"[", "12", "]">>

\* json.loads on the token strings above: ok with the kind of the value, or
\* not ok (json.JSONDecodeError).
json_loads(s) ==
    IF s = <<"{", "}">> THEN [ok |-> TRUE, kind |-> "dict"]
    ELSE IF /\ Len(s) = 5 /\ s[1] = "{" /\ s[2] \in JsonStringTokens
            /\ s[3] = ":" /\ s[4] \in JsonScalarTokens /\ s[5] = "}"
         THEN [ok |-> TRUE, kind |-> "dict"]
    ELSE IF s = <<"[", "]">> THEN [ok |-> TRUE, kind |-> "list"]
    ELSE IF Len(s) = 3 /\ s[1] = "[" /\ s[2] \in JsonScalarTokens /\ s[3] = "]"
         THEN [ok |-> TRUE, kind |-> "list"]
    ELSE IF Len(s) = 1 /\ s[1] \in JsonScalarTokens THEN [ok |-> TRUE, kind |-> "scalar"]
    ELSE [ok |-> FALSE, kind |-> "error"]

\* ---------------------------------------------------------- the environment

\* Conversations call_and_run_tools is started with (chat-completions turns,
\* with or without the system prompt predict_stream inserts).
InitialConversations ==
    { <<ChatMsg("user", "what is 4*3 in python")>>,
      <<ChatMsg("system", "You are a helpful assistant."),
        ChatMsg("user", "what is 4*3 in python")>>,
      <<ChatMsg("user", "Hello!"), ChatMsg("assistant", "Hi, how can I help?")>>,
      <<ChatMsg("user", "Hello!"), ChatMsg("assistant", "Hi, how can I help?"),
        ChatMsg("user", "what is 4*3 in python")>> }

\* The tool calls a model may request: a name and serialized arguments.
ToolCallShapes ==
    { [name |-> "system__ai__python_exec", arguments |-> ValidArgs],
      [name |-> "system__ai__python_exec", arguments |-> TruncatedArgs],
      [name |-> "system__ai__python_exec", arguments |-> ListArgs],
      [name |-> "no_such_tool", arguments |-> ValidArgs] }

SeqsUpTo(S, n) == UNION { [1..k -> S] : k \in 0..n }

\* What one streamed completion adds up to: the text ("" when none) and the
\* tool calls of the turn.
LLMResponses ==
    { [content |-> c, tool_calls |-> tc] :
        c \in {"", "4*3 is 12"}, tc \in SeqsUpTo(ToolCallShapes, MaxCallsPerTurn) }

\* ---------------------------------------------------------------- the loop

Init ==
    /\ messages \in InitialConversations
    /\ messages0 = messages
    /\ max_iter \in 0..MaxIter
    /\ iter = 0
    /\ events = <<>>
    /\ pc = "loop"
    /\ raised = "none"
    /\ next_call_id = 1
    /\ attempts = 0
    /\ trace = <<>>
    /\ tool_runs = <<>>
    /\ agent = ToolCallingAgent("")
    /\ runs = <<>>

InBudget_inclusive == iter <= max_iter

\* for _ in range(max_iter): another iteration is begun while this holds.
InBudget == iter < max_iter

\* last_msg = messages[-1]
last_msg == Last(messages)

\* A history record of one step: what was done, on a history of which length.
Step(op) == [op |-> op, at |-> Len(messages)]

messages_append_dropped(msgs, item) == msgs

\* messages.append(tool_call_output)
messages_append(msgs, item) == Append(msgs, item)

NoResult == [value |-> PyNone, error |-> PyNone]

ToolRun(tool_call, called, function_result, exc) ==
    [idx |-> Len(messages), call_id |-> tool_call.call_id, name |-> tool_call.name,
     arguments |-> tool_call.arguments, called |-> called, result |-> function_result, raised |-> exc]

\* An exception leaves handle_tool_call and, through the generator, reaches
\* the consumer of the events: nothing is appended or yielded.
ToolTurnRaises(tool_call, exc) ==
    /\ pc' = "raised"
    /\ raised' = exc
    /\ tool_runs' = Append(tool_runs, ToolRun(tool_call, FALSE, NoResult, exc))
    /\ UNCHANGED <<messages, events>>

\* handle_tool_call: json.loads, execute_tool (lookup, then exec_fn(**args)),
\* str(), append the function_call_output item and return its event.
handle_tool_call(tool_call) ==
    LET args == json_loads(tool_call.arguments) IN
    IF ~args.ok THEN ToolTurnRaises(tool_call, "JSONDecodeError")
    ELSE IF tool_call.name \notin DOMAIN tools_dict THEN ToolTurnRaises(tool_call, "KeyError")
    ELSE IF args.kind # "dict" THEN ToolTurnRaises(tool_call, "TypeError")
    ELSE \E function_result \in FunctionResults :
            LET result == py_str(exec_fn(function_result))
                tool_call_output ==
                    create_function_call_output_item(tool_call.call_id, result)
            IN  /\ messages' = messages_append(messages, tool_call_output)
                /\ events' = Append(events, ItemDone(tool_call_output))
                /\ tool_runs' = Append(tool_runs,
                                       ToolRun(tool_call, TRUE, function_result, "none"))
                /\ UNCHANGED <<pc, raised>>

\* The items output_to_responses_items_stream aggregates from one completion:
\* the text item when there is text, then one function_call item per tool call.
cc_stream_items(resp, first_id) ==
    (IF resp.content # "" THEN <<create_text_output_item(resp.content)>> ELSE <<>>)
    \o [k \in 1..Len(resp.tool_calls) |->
            create_function_call_item(first_id + k - 1, resp.tool_calls[k].name,
                                      resp.tool_calls[k].arguments)]

cc_stream_events_text_only(resp, first_id) ==
    IF resp.content # ""
    THEN <<TextDelta(resp.content), ItemDone(create_text_output_item(resp.content))>>
    ELSE <<>>

\* The events it yields: the text delta, then an item-done event per item.
cc_stream_events(resp, first_id) ==
    (IF resp.content # "" THEN <<TextDelta(resp.content)>> ELSE <<>>)
    \o [k \in 1..Len(cc_stream_items(resp, first_id)) |->
            ItemDone(cc_stream_items(resp, first_id)[k])]

\* if last_msg.get("role") == "assistant": return
Return ==
    /\ pc = "loop" /\ InBudget
    /\ last_msg.role = "assistant"
    /\ pc' = "done"
    /\ iter' = iter + 1
    /\ trace' = Append(trace, Step("return"))
    /\ UNCHANGED <<messages, events, max_iter, raised, next_call_id, attempts,
                   tool_runs, messages0, agent, runs>>

\* elif last_msg.get("type") == "function_call": yield self.handle_tool_call(...)
ToolTurn ==
    /\ pc = "loop" /\ InBudget
    /\ last_msg.role # "assistant"
    /\ last_msg.type = "function_call"
    /\ handle_tool_call(last_msg)
    /\ iter' = iter + 1
    /\ trace' = Append(trace, Step("tool"))
    /\ UNCHANGED <<max_iter, next_call_id, attempts, messages0, agent, runs>>

\* else: yield from output_to_responses_items_stream(self.call_llm(messages),
\* aggregator=messages), the completion arriving whole.
ModelTurn ==
    /\ pc = "loop" /\ InBudget
    /\ last_msg.role # "assistant"
    /\ last_msg.type # "function_call"
    /\ \E resp \in LLMResponses :
          /\ messages' = messages \o cc_stream_items(resp, next_call_id)
          /\ events' = events \o cc_stream_events(resp, next_call_id)
          /\ next_call_id' = next_call_id + Len(resp.tool_calls)
    /\ attempts' = 1
    /\ iter' = iter + 1
    /\ trace' = Append(trace, Step("llm"))
    /\ UNCHANGED <<max_iter, pc, raised, tool_runs, messages0, agent, runs>>

\* The same branch when chat.completions.create fails (e.g. a rate limit):
\* call_llm has no handler and no retry decorator, the error leaves the run.
ModelTurnFails ==
    /\ pc = "loop" /\ InBudget
    /\ last_msg.role # "assistant"
    /\ last_msg.type # "function_call"
    /\ pc' = "raised"
    /\ raised' = "RateLimitError"
    /\ attempts' = 1
    /\ iter' = iter + 1
    /\ trace' = Append(trace, Step("llm"))
    /\ UNCHANGED <<messages, events, max_iter, next_call_id, tool_runs, messages0, agent, runs>>

\* After the loop: yield the "Max iterations reached. Stopping." item.
BudgetNotice ==
    /\ pc = "loop" /\ ~InBudget
    /\ events' = Append(events, NoticeEvent)
    /\ pc' = "budget"
    /\ trace' = Append(trace, Step("notice"))
    /\ UNCHANGED <<messages, iter, max_iter, raised, next_call_id, attempts,
                   tool_runs, messages0, agent, runs>>

Next == Return \/ ToolTurn \/ ModelTurn \/ ModelTurnFails \/ BudgetNotice

Spec == Init /\ [][Next]_vars

\* The consumer keeps asking for the next event, and every model stream and
\* tool execution returns: a step that can be taken is taken.
FairSpec == Spec /\ WF_vars(Next)

\* ------------------------------------------------------- derived quantities

\* Model calls and tool turns made so far, counted together.
Transitions == Cardinality({k \in DOMAIN trace : trace[k].op \in {"llm", "tool"}})

NoticeCount == Cardinality({k \in DOMAIN events : events[k] = NoticeEvent})

IsCall(m) == m.type = "function_call"

\* The positions after i, up to n, of the tool results that carry call_id c.
ResultsFor(c, i, n) ==
    {j \in (i + 1)..n :
        messages[j].type = "function_call_output" /\ messages[j].call_id = c}

\* ------------------------------------------------------------------ claims

\* C1: a run makes at most max_iter model calls and tool turns together; when
\* the budget runs out exactly one "Max iterations reached. Stopping." event
\* is yielded, it is the last event, and nothing is called after it.
C1_BudgetBound ==
    /\ Transitions <= max_iter
    /\ NoticeCount <= 1
    /\ NoticeCount = 1 => pc = "budget"
    /\ pc = "budget" =>
          /\ NoticeCount = 1
          /\ Last(events) = NoticeEvent
          /\ iter = max_iter
    /\ \A k \in DOMAIN trace : trace[k].op = "notice" => k = Len(trace)

\* A run that used its whole budget on model calls and tool turns, then
\* yielded the notice.
C1_Witness ==
    /\ pc = "budget" /\ max_iter >= 3 /\ Transitions = max_iter
    /\ \E k \in DOMAIN trace : trace[k].op = "tool"

\* C2: when the notice is yielded after the iterations of a positive budget,
\* the tail of the conversation is not a finalized assistant message (a final
\* answer on the last budgeted iteration ends the run without a notice).
C2_NoticeOnlyWhenNotDone ==
    (pc = "budget" /\ max_iter >= 1) => last_msg.role # "assistant"

\* C3: started on a conversation whose tail is a finalized assistant message,
\* the run yields no event, calls neither the model nor a tool, leaves the
\* history as it was and returns on the first inspection, with no notice.
C3_FinalizedStartEmitsNothing ==
    (Last(messages0).role = "assistant" /\ pc # "loop") =>
        /\ pc = "done"
        /\ events = <<>>
        /\ messages = messages0
        /\ Transitions = 0

\* C4: at every model call, each function_call item already in the history
\* is followed, within that history, by exactly one function_call_output
\* with its call_id.
C4_RoundTrip ==
    \A k \in DOMAIN trace :
        trace[k].op = "llm" =>
            \A i \in 1..trace[k].at :
                IsCall(messages[i]) =>
                    Cardinality(ResultsFor(messages[i].call_id, i, trace[k].at)) = 1

\* C5: when the run has ended by return or by the budget notice, every
\* function_call item of the history has a function_call_output with its
\* call_id after it.
C5_NoUnresolvedAtTermination ==
    pc \in {"done", "budget"} =>
        \A i \in DOMAIN messages :
            IsCall(messages[i]) =>
                ResultsFor(messages[i].call_id, i, Len(messages)) # {}

\* C6: a tool turn on a name that is no key of the registry raises nothing,
\* appends exactly one function_call_output with the call_id and yields one
\* item-done event for it.
C6_UnknownToolSurfaced ==
    \A k \in DOMAIN tool_runs :
        LET r == tool_runs[k] IN
        (json_loads(r.arguments).ok /\ r.name \notin DOMAIN tools_dict) =>
            /\ r.raised = "none"
            /\ Cardinality(ResultsFor(r.call_id, r.idx, Len(messages))) = 1
            /\ \E e \in DOMAIN events :
                  /\ events[e].type = "response.output_item.done"
                  /\ events[e].item.type = "function_call_output"
                  /\ events[e].item.call_id = r.call_id

\* C7: a tool turn on arguments that are not parseable JSON raises nothing,
\* appends exactly one function_call_output with the call_id, and does not
\* run the handler.
C7_MalformedArgumentsSurfaced ==
    \A k \in DOMAIN tool_runs :
        LET r == tool_runs[k] IN
        ~json_loads(r.arguments).ok =>
            /\ r.raised = "none"
            /\ ~r.called
            /\ Cardinality(ResultsFor(r.call_id, r.idx, Len(messages))) = 1

\* The tool turns in which the handler ran and its result carries an error.
FailedRuns ==
    {k \in DOMAIN tool_runs :
        tool_runs[k].called /\ tool_runs[k].result.error # PyNone}

\* C8: when the handler's result carries an error, the tool turn raises
\* nothing: the error's string form is the output of exactly one
\* function_call_output with the call_id, placed right after the call, one
\* item-done event carries it, and the generator is back at the loop.
C8_ToolErrorIsContent ==
    \A k \in FailedRuns :
        LET r == tool_runs[k]
            want == create_function_call_output_item(r.call_id, py_str(r.result.error))
        IN  /\ r.raised = "none"
            /\ ResultsFor(r.call_id, r.idx, Len(messages)) = {r.idx + 1}
            /\ messages[r.idx + 1] = want
            /\ Cardinality({e \in DOMAIN events : events[e] = ItemDone(want)}) = 1
            /\ (k = Len(tool_runs) /\ Last(trace).op = "tool") => pc = "loop"

\* A tool turn whose handler reported an error has just been made.
C8_Witness ==
    /\ FailedRuns # {}
    /\ Len(tool_runs) \in FailedRuns
    /\ Last(trace).op = "tool"
    /\ Last(messages).output = "ZeroDivisionError: division by zero"

\* C9: an endpoint error reaches the caller only after the model call has
\* been attempted again (retried) for that turn.
C9_EndpointErrorRetried ==
    raised = "RateLimitError" => attempts > 1

\* C10: no function_call item has its handler run more than once, and every
\* handler error is the output of exactly one function_call_output item.
C10_NoToolRetry ==
    /\ \A i \in DOMAIN messages :
          IsCall(messages[i]) =>
              Cardinality({k \in DOMAIN tool_runs :
                              tool_runs[k].called /\ tool_runs[k].idx = i}) <= 1
    /\ \A k \in DOMAIN tool_runs :
          Cardinality({n \in DOMAIN tool_runs :
                          tool_runs[n].called /\ tool_runs[n].call_id = tool_runs[k].call_id}) <= 1
    /\ \A k \in FailedRuns :
          Cardinality({j \in DOMAIN messages :
                          /\ messages[j].type = "function_call_output"
                          /\ messages[j].call_id = tool_runs[k].call_id
                          /\ messages[j].output = py_str(tool_runs[k].result.error)}) = 1

\* The handler reported an error and the loop has gone on to its next
\* iteration, a model call, without running the handler again.
C10_Witness ==
    /\ FailedRuns # {}
    /\ Len(trace) >= 3
    /\ trace[Len(trace) - 1].op = "tool"
    /\ Last(trace).op = "llm"
    /\ pc = "loop"

\* C11: the run ends, whatever the model answers, and it does so within
\* max_iter iterations of the loop.
C11_RunIsFinite ==
    /\ <>(pc # "loop")
    /\ [](iter <= max_iter)

\* A model that requested a tool on every one of its turns, up to the end of
\* the budget, and the run has ended.
C11_Witness ==
    /\ pc = "budget" /\ max_iter >= 3
    /\ IsCall(last_msg)
    /\ \A k \in DOMAIN trace :
          trace[k].op = "llm" => IsCall(messages[trace[k].at + 1])

\* ------------------------------------------------------------------ predict

IsItemDone(e) == e.type = "response.output_item.done"

predict_output_unfiltered(evs) == [k \in 1..Len(evs) |-> evs[k].item]

\* predict: [event.item for event in ... if event.type == "response.output_item.done"]
predict_output(evs) ==
    [k \in 1..Len(SelectSeq(evs, IsItemDone)) |-> SelectSeq(evs, IsItemDone)[k].item]

\* The messages the run has appended to the conversation it was started with.
Appended == SubSeq(messages, Len(messages0) + 1, Len(messages))

\* The run was started on a conversation that awaits the model, and a model
\* turn has put a function_call item into the history.
ModelRequestedTool ==
    /\ Last(messages0).role # "assistant"
    /\ \E i \in DOMAIN Appended : IsCall(Appended[i])

\* C13 as stated: with max_iter = 1 and a model that requests a tool call,
\* the budget is exceeded after one transition and the output holds exactly
\* one item, the notice.
C13_OnlyTheNotice ==
    (max_iter = 1 /\ pc = "budget" /\ ModelRequestedTool) =>
        /\ Transitions = 1
        /\ predict_output(events) = <<create_text_output_item(NoticeText)>>

\* C13 amended: in such a run the budget is exceeded after one transition;
\* the output holds the items the model turn appended, in order, and then the
\* notice as its last item: at least two items.
C13_TurnItemsThenNotice ==
    (max_iter = 1 /\ pc = "budget" /\ ModelRequestedTool) =>
        /\ Transitions = 1
        /\ predict_output(events) = Appended \o <<create_text_output_item(NoticeText)>>
        /\ Len(predict_output(events)) >= 2

\* A budget of one, spent on a model turn that requested a tool.
C13_Witness ==
    /\ max_iter = 1 /\ pc = "budget" /\ ModelRequestedTool
    /\ Len(predict_output(events)) = 2

\* C15: every step leaves the history it found as a prefix of the new
\* history; a tool turn appends exactly one message and the budget notice
\* appends none.
C15_AppendOnly ==
    [][ /\ Len(messages') >= Len(messages)
        /\ SubSeq(messages', 1, Len(messages)) = messages
        /\ Last(trace').op = "tool" => Len(messages') = Len(messages) + 1
        /\ Last(trace').op = "notice" => messages' = messages ]_vars

\* C18: a model turn that leaves the history as it was is followed, while the
\* budget lasts, by another model call on the same history; a run in which
\* every model turn did so ends with the notice, after exactly max_iter model
\* calls, the notice being its only event.
C18_EmptyTurns ==
    /\ \A k \in 1..(Len(trace) - 1) :
          (trace[k].op = "llm" /\ trace[k + 1].at = trace[k].at) =>
              \/ trace[k + 1].op = "llm"
              \/ trace[k + 1].op = "notice" /\ k = max_iter
    /\ (pc # "loop" /\ raised = "none" /\ messages = messages0
          /\ Last(messages0).role # "assistant") =>
              /\ pc = "budget"
              /\ Cardinality({k \in DOMAIN trace : trace[k].op = "llm"}) = max_iter
              /\ events = <<NoticeEvent>>

\* Three model turns that each left the history unchanged, then the notice.
C18_Witness ==
    /\ pc = "budget" /\ max_iter >= 3
    /\ messages = messages0
    /\ Cardinality({k \in DOMAIN trace : trace[k].op = "llm"}) = max_iter

\* The items of the item-done events, the final notice left out.
EmittedItems ==
    IF pc = "budget"
    THEN SubSeq(predict_output(events), 1, Len(predict_output(events)) - 1)
    ELSE predict_output(events)

\* C19: the items of the item-done events, the final notice left out, are
\* the messages appended during the run, in the same order.
C19_EventsMirrorHistory ==
    EmittedItems = Appended

\* A run that appended a model turn's items and a tool result and went on.
C19_Witness ==
    /\ Len(Appended) >= 3
    /\ \E i \in DOMAIN Appended : Appended[i].type = "function_call_output"
    /\ pc = "budget"

\* ------------------------------------------- invocations of the agent's API

\* The state of the single-run specification above; the invocations below
\* leave it alone.
LoopVars == <<messages, events, iter, max_iter, pc, raised, next_call_id, attempts,
              trace, tool_runs, messages0>>

\* SYSTEM_PROMPT as configured: empty (the default) or a prompt.
SystemPrompts == {"", "You are a helpful assistant."}

\* The two invocations that are in progress at the same time.
InvocationIds == {1, 2}

\* max_iter: int = 10
DefaultMaxIter == 10

InputMsg(role, content) == [role |-> role, content |-> content, type |-> "message"]

\* Requests: the input turns and the caller's custom_inputs.
Requests ==
    { [input |-> <<InputMsg("user", "what is 4*3 in python")>>, custom_inputs |-> None],
      [input |-> <<InputMsg("user", "what is 4*3 in python")>>,
       custom_inputs |-> "session-42"],
      [input |-> <<InputMsg("user", "Hello!"), InputMsg("assistant", "Hi, how can I help?")>>,
       custom_inputs |-> None] }

\* to_chat_completions_input on {role, content} turns: one chat message per
\* turn, only the chat-completions keys kept.
to_chat_completions_input(input) ==
    [k \in 1..Len(input) |-> ChatMsg(input[k].role, input[k].content)]

\* A model is a function of the conversation it is sent.
ModelBehaviours ==
    {"answer", "always_empty", "always_tool", "tool_then_answer", "unknown_tool",
     "rate_limited"}

HasToolResult(msgs) == \E i \in DOMAIN msgs : msgs[i].type = "function_call_output"

TextReply == [content |-> "4*3 is 12", tool_calls |-> <<>>]

CallReply(name) == [content |-> "", tool_calls |-> <<[name |-> name, arguments |-> ValidArgs]>>]

\* The completion a model of the given behaviour streams for a conversation.
llm_reply(model, msgs) ==
    IF model = "answer" THEN TextReply
    ELSE IF model = "always_empty" THEN [content |-> "", tool_calls |-> <<>>]
    ELSE IF model = "always_tool" THEN CallReply("system__ai__python_exec")
    ELSE IF model = "tool_then_answer"
         THEN (IF HasToolResult(msgs) THEN TextReply
               ELSE CallReply("system__ai__python_exec"))
    ELSE CallReply("no_such_tool")

\* A tool either returns its value or reports an error, on every execution.
ToolBehaviours == {"value", "error"}

tool_result(tool) ==
    CHOOSE fr \in FunctionResults : (fr.error = PyNone) <=> (tool = "value")

NoResponse == [returned |-> FALSE, output |-> <<>>, custom_outputs |-> None]

\* predict_stream up to its call of call_and_run_tools: the chat messages of
\* the request, the system prompt inserted first when there is one.
predict_stream_start(self, api, request, model, tool) ==
    [api |-> api, request |-> request, model |-> model, tool |-> tool,
     messages |-> (IF self.SYSTEM_PROMPT # ""
                   THEN <<ChatMsg("system", self.SYSTEM_PROMPT)>> ELSE <<>>)
                  \o to_chat_completions_input(request.input),
     events |-> <<>>, iter |-> 0, max_iter |-> DefaultMaxIter, pc |-> "loop",
     raised |-> "none", next_call_id |-> 1, tools_sent |-> <<>>,
     outputs |-> <<>>, response |-> NoResponse, steps |-> 0]

RunRaises(run, exc) == [run EXCEPT !.pc = "raised", !.raised = exc, !.iter = @ + 1]

has_tool(self, tool_name) ==
    \E k \in DOMAIN self.tools_dict : self.tools_dict[k].name = tool_name

\* handle_tool_call on the run's own messages.
run_tool_turn(self, run) ==
    LET tool_call == Last(run.messages)
        args == json_loads(tool_call.arguments)
        out == create_function_call_output_item(
                   tool_call.call_id, py_str(exec_fn(tool_result(run.tool))))
    IN  IF ~args.ok THEN RunRaises(run, "JSONDecodeError")
        ELSE IF ~has_tool(self, tool_call.name) THEN RunRaises(run, "KeyError")
        ELSE IF args.kind # "dict" THEN RunRaises(run, "TypeError")
        ELSE [run EXCEPT !.messages = messages_append(@, out),
                         !.events = Append(@, ItemDone(out)),
                         !.iter = @ + 1]

\* call_llm with tools=self.get_tool_specs(), its stream aggregated into the
\* run's own messages.
run_model_turn(self, run) ==
    IF run.model = "rate_limited"
    THEN [RunRaises(run, "RateLimitError") EXCEPT
              !.tools_sent = Append(@, get_tool_specs(self))]
    ELSE LET resp == llm_reply(run.model, run.messages) IN
         [run EXCEPT !.messages = @ \o cc_stream_items(resp, run.next_call_id),
                     !.events = @ \o cc_stream_events(resp, run.next_call_id),
                     !.next_call_id = @ + Len(resp.tool_calls),
                     !.tools_sent = Append(@, get_tool_specs(self)),
                     !.iter = @ + 1]

\* One step of the generator call_and_run_tools(messages=messages).
call_and_run_tools_step(self, run) ==
    IF ~(run.iter < run.max_iter)
    THEN [run EXCEPT !.events = Append(@, NoticeEvent), !.pc = "budget"]
    ELSE IF Last(run.messages).role = "assistant"
    THEN [run EXCEPT !.pc = "done", !.iter = @ + 1]
    ELSE IF Last(run.messages).type = "function_call" THEN run_tool_turn(self, run)
    ELSE run_model_turn(self, run)

\* The events a step has added to those of the run.
NewEvents(before, after) == SubSeq(after.events, Len(before.events) + 1, Len(after.events))

\* One step of an invocation: the generator advances and, under predict, the
\* items of its new item-done events are collected; once the generator has
\* ended, predict returns its response.
invocation_step(self, run) ==
    IF run.pc = "loop"
    THEN LET after == call_and_run_tools_step(self, run) IN
         [after EXCEPT !.outputs = IF run.api = "predict"
                                   THEN @ \o predict_output(NewEvents(run, after))
                                   ELSE @,
                       !.steps = @ + 1]
    ELSE [run EXCEPT !.response = [returned |-> TRUE, output |-> run.outputs,
                                   custom_outputs |-> run.request.custom_inputs],
                     !.steps = @ + 1]

run_state_shared_history(rs, r) == [rs[r] EXCEPT !.messages = rs[1].messages]

\* What a step of invocation r works on: messages, the loop counter and the
\* events are locals of its own generator.
run_state(rs, r) == rs[r]

execute_tool_pops(self, run) ==
    IF run.pc = "loop" /\ run.iter < run.max_iter /\ IsCall(Last(run.messages))
    THEN [self EXCEPT !.tools_dict = SelectSeq(@, LAMBDA t : t.name # Last(run.messages).name)]
    ELSE self

\* The agent object after a step of an invocation: get_tool_specs and
\* execute_tool read self._tools_dict, nothing is assigned.
agent_after_step(self, run) == self

PredictInit ==
    /\ messages = <<>> /\ messages0 = <<>> /\ events = <<>> /\ trace = <<>>
    /\ tool_runs = <<>> /\ iter = 0 /\ max_iter = 0 /\ pc = "idle"
    /\ raised = "none" /\ next_call_id = 1 /\ attempts = 0
    /\ agent \in {ToolCallingAgent(sp) : sp \in SystemPrompts}
    /\ runs \in [InvocationIds ->
                   {predict_stream_start(agent, api, request, model, tool) :
                       api \in {"predict", "predict_stream"}, request \in Requests,
                       model \in ModelBehaviours, tool \in ToolBehaviours}]

\* The consumer of invocation r asks its generator for the next event(s).
StreamNext ==
    \E r \in InvocationIds :
        /\ runs[r].pc = "loop"
        /\ runs' = [runs EXCEPT ![r] = invocation_step(agent, run_state(runs, r))]
        /\ agent' = agent_after_step(agent, runs[r])
        /\ UNCHANGED LoopVars

\* predict returns ResponsesAgentResponse(output=outputs, custom_outputs=...).
PredictReturn ==
    \E r \in InvocationIds :
        /\ runs[r].api = "predict"
        /\ runs[r].pc \in {"done", "budget"}
        /\ ~runs[r].response.returned
        /\ runs' = [runs EXCEPT ![r] = invocation_step(agent, run_state(runs, r))]
        /\ agent' = agent_after_step(agent, runs[r])
        /\ UNCHANGED LoopVars

PredictNext == StreamNext \/ PredictReturn

PredictSpec == PredictInit /\ [][PredictNext]_vars

\* The constructed agent, for the configured prompt.
ConstructedAgent == ToolCallingAgent(agent.SYSTEM_PROMPT)

\* An invocation as predict_stream starts it, from the inputs run holds.
StartOf(run) ==
    predict_stream_start(ConstructedAgent, run.api, run.request, run.model, run.tool)

SameInputs(a, b) == a.request = b.request /\ a.model = b.model /\ a.tool = b.tool

\* The scenario of the manual test: one user message, a model whose first
\* turn requests one tool call and whose second turn is its final answer,
\* and predict has returned.
ToolThenAnswerReturned(run) ==
    /\ run.api = "predict" /\ run.response.returned
    /\ Len(run.request.input) = 1 /\ run.request.input[1].role = "user"
    /\ run.model = "tool_then_answer"

RECURSIVE DoneItems(_)
\* The items of the item-done events of a sequence of events, in order.
DoneItems(evs) ==
    IF evs = <<>> THEN <<>>
    ELSE (IF Head(evs).type = "response.output_item.done" THEN <<Head(evs).item>> ELSE <<>>)
         \o DoneItems(Tail(evs))

\* C14: the output predict returns is the items of the item-done events of
\* predict_stream for the same request, model and tools, in order and with
\* no delta event among them; custom_outputs is the request's custom_inputs.
C14_PredictRefinesStream ==
    \A p \in InvocationIds :
        (runs[p].api = "predict" /\ runs[p].response.returned) =>
            /\ runs[p].response.custom_outputs = runs[p].request.custom_inputs
            /\ \A i \in DOMAIN runs[p].response.output :
                  runs[p].response.output[i] # NoItem
            /\ \A q \in InvocationIds :
                  (SameInputs(runs[p], runs[q]) /\ runs[q].pc \in {"done", "budget"}) =>
                      runs[p].response.output = DoneItems(runs[q].events)

\* predict has returned and a predict_stream invocation of the same request
\* has ended, its events holding a text delta.
C14_Witness ==
    \E p, q \in InvocationIds :
        /\ runs[p].api = "predict" /\ runs[p].response.returned
        /\ runs[q].api = "predict_stream" /\ runs[q].pc = "done"
        /\ SameInputs(runs[p], runs[q])
        /\ runs[p].request.custom_inputs = "session-42"
        /\ \E k \in DOMAIN runs[q].events :
              runs[q].events[k].type = "response.output_text.delta"
        /\ Len(runs[p].response.output) = 3

RECURSIVE RunAlone(_, _, _)
\* The invocation after n steps when nothing else runs.
RunAlone(self, run, n) ==
    IF n = 0 THEN run ELSE RunAlone(self, invocation_step(self, run), n - 1)

\* C16: however the steps of the two invocations are interleaved, each is
\* where the same number of its own steps takes it when it runs alone (its
\* history, counter and events included), and the registry is as constructed.
C16_InvocationsIndependent ==
    /\ \A r \in InvocationIds :
          runs[r] = RunAlone(ConstructedAgent, StartOf(runs[r]), runs[r].steps)
    /\ agent.tools_dict = ConstructedAgent.tools_dict

\* Both invocations are in the middle of their loops, on different inputs.
C16_Witness ==
    /\ runs[1].pc = "loop" /\ runs[2].pc = "loop"
    /\ runs[1].steps >= 2 /\ runs[2].steps >= 3
    /\ runs[1].model # runs[2].model
    /\ HasToolResult(runs[1].messages)

\* C17: after any steps of any invocations the agent's registry is the one
\* built at construction, and every get_tool_specs call (one per model call)
\* returned the same specs, in the same order, as at construction.
C17_RegistryFixed ==
    /\ agent = ConstructedAgent
    /\ get_tool_specs(agent) = get_tool_specs(ConstructedAgent)
    /\ \A r \in InvocationIds :
          \A k \in DOMAIN runs[r].tools_sent :
              /\ runs[r].tools_sent[k] = get_tool_specs(ConstructedAgent)
              /\ Len(runs[r].tools_sent[k]) = Len(uc_toolkit_tools)

\* A tool has been executed, the model has been called again after it, and
\* a predict has returned.
C17_Witness ==
    \E r \in InvocationIds :
        /\ Len(runs[r].tools_sent) >= 2
        /\ HasToolResult(runs[r].messages)
        /\ runs[r].response.returned

====
